---- MODULE Spec2Model ----
(***************************************************************************)
(* Model of the Bolt-backed "table" persistence wrapper (package model):    *)
(* getById, getAll, create, update, delete and truncate over one bucket,    *)
(* with the store's write transactions (commit or roll back as a whole),    *)
(* the per-bucket sequence and the byte-ordered key space.                  *)
(***************************************************************************)
EXTENDS Integers, Sequences, FiniteSets, TLC

\* ---------------------------------------------------------------- bounds
\* Most creates between two truncates in the short specifications.
MaxSeq == 3
\* Most creates between two truncates when the store or the codec may fail.
MaxFault == 2
\* Most creates between two truncates in the registration specification.
MaxReg == 2
\* Most creates between two truncates on each of two tables.
MaxTwo == 2
\* Most bonus ranking points in an alliance's score summary.
MaxBonus == 3
\* Most creates between two truncates by concurrent callers.
MaxConc == 2
\* Most creates in the long-run specification (keys of two digits).
MaxLong == 10

\* Record payloads (the non-id field of the record type).
Names == {"a", "b"}
LongNames == {"a"}

\* ------------------------------------------------------ bytes and numbers
Minus == 45
Zero == 48

RECURSIVE digits(_)
\* Decimal digits of n >= 0 as ASCII bytes, most significant first.
digits(n) ==
    IF n < 10 THEN <<Zero + n>> ELSE Append(digits(n \div 10), Zero + (n % 10))

\* strconv.FormatInt(id, 10)
FormatInt(id) == IF id < 0 THEN <<Minus>> \o digits(0 - id) ELSE digits(id)

RECURSIVE parseDigits(_, _)
parseDigits(s, acc) ==
    IF s = <<>> THEN acc ELSE parseDigits(Tail(s), acc * 10 + (Head(s) - Zero))

\* Decoding of a decimal number literal.
ParseInt(s) ==
    IF s # <<>> /\ Head(s) = Minus THEN 0 - parseDigits(Tail(s), 0)
    ELSE parseDigits(s, 0)

\* Serializes the id to its base-10 string representation.
idToKey(id) == FormatInt(id)

\* bytes.Compare(a, b) < 0: the order of keys inside a bucket.
BytesLessNumeric(a, b) == ParseInt(a) < ParseInt(b)
BytesLess(a, b) ==
    \E i \in 1..(Len(a) + 1) :
        /\ \A j \in 1..(i - 1) : j <= Len(b) /\ a[j] = b[j]
        /\ i <= Len(b)
        /\ (i = Len(a) + 1 \/ a[i] < b[i])

\* ------------------------------------------------------------ the codec
Rec(id, name) == [Id |-> id, Name |-> name]
ZeroRec == Rec(0, "")

\* json.Marshal of a record: the id is written as a decimal literal.
MarshalNoName(r) == [Id |-> FormatInt(r.Id), Name |-> ""]
Marshal(r) == [Id |-> FormatInt(r.Id), Name |-> r.Name]

\* json.Unmarshal into the record `into`: fields present in the JSON
\* overwrite the target's fields.
Unmarshal(json, into) ==
    [into EXCEPT !.Id = ParseInt(json.Id), !.Name = json.Name]

\* ------------------------------------------------------------ the table
EmptyKv == [k \in {} |-> 0]
EmptyBucket == [sequence |-> 0, kv |-> EmptyKv]

\* tx.Bucket(name) in getBucket: "unknown table" when the bucket is missing.
getBucket(tx, t) ==
    IF t.bucketKey \in DOMAIN tx THEN "none" ELSE "unknown_table"

\* bucket.Put(key, value)
Put(b, key, value) ==
    [b EXCEPT !.kv = [k \in (DOMAIN b.kv) \cup {key} |->
                         IF k = key THEN value ELSE b.kv[k]]]

\* bucket.Delete(key)
Delete(b, key) ==
    [b EXCEPT !.kv = [k \in (DOMAIN b.kv) \ {key} |-> b.kv[k]]]

\* tx.DeleteBucket(name)
DeleteBucket(tx, name) == [n \in (DOMAIN tx) \ {name} |-> tx[n]]

\* tx.CreateBucket(name): a new bucket is empty and its sequence is 0.
CreateBucket(tx, name) ==
    [n \in (DOMAIN tx) \cup {name} |-> IF n = name THEN EmptyBucket ELSE tx[n]]

RECURSIVE visit(_, _)
visit(kv, keys) ==
    IF keys = {} THEN <<>>
    ELSE LET k == CHOOSE x \in keys : \A y \in keys \ {x} : BytesLess(x, y)
         IN  <<[key |-> k, value |-> kv[k]]>> \o visit(kv, keys \ {k})

\* bucket.ForEach: the key/value pairs in ascending byte order of the keys.
ForEach(b) == visit(b.kv, DOMAIN b.kv)

\* bolt.Update(fn): commit the transaction's writes when fn returns nil and
\* the commit succeeds, roll all of them back otherwise.
UpdateNoRollback(old, body, fault) ==
    IF body.err # "none" THEN [err |-> body.err, db |-> body.db]
    ELSE IF fault = "commit" THEN [err |-> "store", db |-> body.db]
    ELSE [err |-> "none", db |-> body.db]
Update(old, body, fault) ==
    IF body.err # "none" THEN [err |-> body.err, db |-> old]
    ELSE IF fault = "commit" THEN [err |-> "store", db |-> old]
    ELSE [err |-> "none", db |-> body.db]

\* ---------------------------------------------------------- registration
\* Record types as newTable sees them: the kind of the value passed and,
\* for a struct, the db tag and the kind of each field in order.
Field(tag, kind) == [tag |-> tag, kind |-> kind]

RecType ==
    [name |-> "Rec", kind |-> "struct",
     fields |-> <<Field("id", "int64"), Field("", "string")>>]
OtherType ==
    [name |-> "Other", kind |-> "struct",
     fields |-> <<Field("", "string"), Field("id", "int64")>>]
NoIdType ==
    [name |-> "NoId", kind |-> "struct",
     fields |-> <<Field("", "int64"), Field("name", "string")>>]
StringIdType ==
    [name |-> "StringId", kind |-> "struct",
     fields |-> <<Field("id", "string"), Field("id", "int64")>>]
IntIdType ==
    [name |-> "IntId", kind |-> "struct",
     fields |-> <<Field("", "string"), Field("id", "int")>>]
PtrRecType == [name |-> "", kind |-> "ptr", fields |-> <<>>]

RecordTypes ==
    {RecType, OtherType, NoIdType, StringIdType, IntIdType, PtrRecType}

\* tx.CreateBucketIfNotExists(name): an existing bucket is left as it is.
CreateBucketIfNotExistsReset(tx, name) == CreateBucket(tx, name)
CreateBucketIfNotExists(tx, name) ==
    IF name \in DOMAIN tx THEN tx ELSE CreateBucket(tx, name)

\* The handle newTable fills in for a record type: name, record type, bucket
\* key (the type's name) and the index of the id field.
tableForSharedBucket(type, idIndex) ==
    [name |-> type.name, recordType |-> type.name, bucketKey |-> "table",
     idFieldIndex |-> <<idIndex>>]
tableFor(type, idIndex) ==
    [name |-> type.name, recordType |-> type.name, bucketKey |-> type.name,
     idFieldIndex |-> <<idIndex>>]

\* Index of the first field tagged "id" (0 when there is none).
idField(type) ==
    IF \E i \in 1..Len(type.fields) : type.fields[i].tag = "id"
    THEN CHOOSE i \in 1..Len(type.fields) :
            /\ type.fields[i].tag = "id"
            /\ \A j \in 1..(i - 1) : type.fields[j].tag # "id"
    ELSE 0

\* Database.newTable(recordType): the error, the handle (<<>> for nil) and
\* the store afterwards.
newTableBucketFirst(store, type, fault) ==
    LET made == CreateBucketIfNotExists(store, type.name)
        i == idField(type)
    IN  IF type.kind # "struct"
        THEN [err |-> "not_struct", table |-> <<>>, db |-> made, tx |-> "update"]
        ELSE IF i = 0
        THEN [err |-> "no_id_field", table |-> <<>>, db |-> made, tx |-> "update"]
        ELSE IF type.fields[i].kind # "int64"
        THEN [err |-> "id_not_int64", table |-> <<>>, db |-> made,
              tx |-> "update"]
        ELSE [err |-> "none", table |-> <<tableFor(type, i)>>, db |-> made,
              tx |-> "update"]
newTable(store, type, fault) ==
    IF type.kind # "struct"
    THEN [err |-> "not_struct", table |-> <<>>, db |-> store, tx |-> "none"]
    ELSE LET i == idField(type)
         IN  IF i = 0
             THEN [err |-> "no_id_field", table |-> <<>>, db |-> store,
                   tx |-> "none"]
             ELSE IF type.fields[i].kind # "int64"
             THEN [err |-> "id_not_int64", table |-> <<>>, db |-> store,
                   tx |-> "none"]
             ELSE LET t == tableFor(type, i)
                      body == [err |-> "none",
                               db |-> CreateBucketIfNotExists(store, t.bucketKey)]
                      r == Update(store, body, fault)
                  IN  [err |-> r.err,
                       table |-> IF r.err = "none" THEN <<t>> ELSE <<>>,
                       db |-> r.db, tx |-> "update"]

\* A store without buckets.
EmptyStore == [n \in {} |-> EmptyBucket]

\* The table registered for the record type (result of newTable).
table == newTable(EmptyStore, RecType, "none").table[1]

\* The table registered for a second record type.
otherTable == newTable(EmptyStore, OtherType, "none").table[1]

\* A handle that was not built by newTable: it has no id locator.
brokenTable == [table EXCEPT !.idFieldIndex = <<>>]

\* ------------------------------------------------------ shape validation
Kinds == {"ptr", "slice", "struct"}

\* validateType: walk the expected chain of kinds against the argument's,
\* then compare the base type with the table's and check the id locator.
validateTypeKindsOnly(t, arg, kinds) ==
    IF \E i \in 1..Len(kinds) : i > Len(arg.kinds) \/ arg.kinds[i] # kinds[i]
    THEN "shape"
    ELSE "none"
validateType(t, arg, kinds) ==
    IF \E i \in 1..Len(kinds) : i > Len(arg.kinds) \/ arg.kinds[i] # kinds[i]
    THEN "shape"
    ELSE IF arg.type # t.recordType THEN "type"
    ELSE IF t.idFieldIndex = <<>> THEN "no_id"
    ELSE "none"

\* Arguments as callers can pass them to an operation expecting `kinds`:
\* the expected one, one of another record type, one of another shape.
ArgShapes(kinds) ==
    {[kinds |-> kinds, type |-> "Rec"],
     [kinds |-> kinds, type |-> "Other"],
     [kinds |-> IF kinds = <<"ptr", "struct">>
                THEN <<"ptr", "ptr", "struct">> ELSE <<"ptr", "struct">>,
      type |-> "Rec"]}

\* ------------------------------------------------- transaction bodies
\* Each body yields the error it returns, the transaction's view of the
\* store when it returns, and the caller's record as the body left it.

\* The function create passes to bolt.Update.
createTxNoAdvance(tx, t, rec, fault) ==
    LET b == tx[t.bucketKey]
        rec1 == [rec EXCEPT !.Id = b.sequence + 1]
        key == idToKey(b.sequence + 1)
    IN  IF key \in DOMAIN b.kv
        THEN [err |-> "exists", db |-> tx, rec |-> rec1]
        ELSE [err |-> "none", rec |-> rec1,
              db |-> [tx EXCEPT ![t.bucketKey] = Put(b, key, Marshal(rec1))]]
createTxStoresUnassigned(tx, t, rec, fault) ==
    LET b == tx[t.bucketKey]
        id == b.sequence + 1
        b1 == [b EXCEPT !.sequence = id]
    IN  [err |-> "none", rec |-> [rec EXCEPT !.Id = id],
         db |-> [tx EXCEPT ![t.bucketKey] = Put(b1, idToKey(id), Marshal(rec))]]
createTxCountIds(tx, t, rec, fault) ==
    LET b == tx[t.bucketKey]
        id == Cardinality(DOMAIN b.kv) + 1
        b1 == [b EXCEPT !.sequence = b.sequence + 1]
        tx1 == [tx EXCEPT ![t.bucketKey] = b1]
        rec1 == [rec EXCEPT !.Id = id]
    IN  IF idToKey(id) \in DOMAIN b1.kv
        THEN [err |-> "exists", db |-> tx1, rec |-> rec1]
        ELSE [err |-> "none", rec |-> rec1,
              db |-> [tx1 EXCEPT ![t.bucketKey] =
                         Put(b1, idToKey(id), Marshal(rec1))]]
createTx(tx, t, rec, fault) ==
    IF getBucket(tx, t) # "none"
    THEN [err |-> getBucket(tx, t), db |-> tx, rec |-> rec]
    ELSE LET b == tx[t.bucketKey]
             id == b.sequence + 1
             b1 == [b EXCEPT !.sequence = id]
             tx1 == [tx EXCEPT ![t.bucketKey] = b1]
             rec1 == [rec EXCEPT !.Id = id]
             key == idToKey(id)
         IN  IF key \in DOMAIN b1.kv
             THEN [err |-> "exists", db |-> tx1, rec |-> rec1]
             ELSE IF fault = "encode"
             THEN [err |-> "encode", db |-> tx1, rec |-> rec1]
             ELSE IF fault = "write"
             THEN [err |-> "store", db |-> tx1, rec |-> rec1]
             ELSE [err |-> "none", rec |-> rec1,
                   db |-> [tx1 EXCEPT ![t.bucketKey] =
                              Put(b1, key, Marshal(rec1))]]

\* The function update passes to bolt.Update.
updateTxUpsert(tx, t, rec, fault) ==
    [err |-> "none", rec |-> rec,
     db |-> [tx EXCEPT ![t.bucketKey] =
                Put(tx[t.bucketKey], idToKey(rec.Id), Marshal(rec))]]
updateTx(tx, t, rec, fault) ==
    IF getBucket(tx, t) # "none"
    THEN [err |-> getBucket(tx, t), db |-> tx, rec |-> rec]
    ELSE LET b == tx[t.bucketKey]
             key == idToKey(rec.Id)
         IN  IF key \notin DOMAIN b.kv
             THEN [err |-> "not_found", db |-> tx, rec |-> rec]
             ELSE IF fault = "encode"
             THEN [err |-> "encode", db |-> tx, rec |-> rec]
             ELSE IF fault = "write"
             THEN [err |-> "store", db |-> tx, rec |-> rec]
             ELSE [err |-> "none", rec |-> rec,
                   db |-> [tx EXCEPT ![t.bucketKey] = Put(b, key, Marshal(rec))]]

\* The function delete passes to bolt.Update.
deleteTxAll(tx, t, id, fault) ==
    IF idToKey(id) \notin DOMAIN tx[t.bucketKey].kv
    THEN [err |-> "not_found", db |-> tx]
    ELSE [err |-> "none",
          db |-> [tx EXCEPT ![t.bucketKey] = [@ EXCEPT !.kv = EmptyKv]]]
deleteTx(tx, t, id, fault) ==
    IF getBucket(tx, t) # "none"
    THEN [err |-> getBucket(tx, t), db |-> tx]
    ELSE LET b == tx[t.bucketKey]
             key == idToKey(id)
         IN  IF key \notin DOMAIN b.kv
             THEN [err |-> "not_found", db |-> tx]
             ELSE IF fault = "write"
             THEN [err |-> "store", db |-> tx]
             ELSE [err |-> "none",
                   db |-> [tx EXCEPT ![t.bucketKey] = Delete(b, key)]]

\* The function truncate passes to bolt.Update: delete the whole bucket,
\* then create it again.
truncateTxKeepSequence(tx, t, fault) ==
    [err |-> "none",
     db |-> [tx EXCEPT ![t.bucketKey] = [@ EXCEPT !.kv = EmptyKv]]]
truncateTxKeepEntries(tx, t, fault) ==
    [err |-> "none",
     db |-> [tx EXCEPT ![t.bucketKey] = [@ EXCEPT !.sequence = 0]]]
truncateTx(tx, t, fault) ==
    IF getBucket(tx, t) # "none"
    THEN [err |-> getBucket(tx, t), db |-> tx]
    ELSE LET tx1 == DeleteBucket(tx, t.bucketKey)
         IN  IF fault = "write"
             THEN [err |-> "store", db |-> tx1]
             ELSE [err |-> "none", db |-> CreateBucket(tx1, t.bucketKey)]

\* The function getById passes to bolt.View; ptr is the caller's record
\* pointer (<<>> is nil).  The fetch bodies write nothing: the store they
\* leave is the one they were given.
getByIdTxKeepPointer(tx, t, id, ptr) ==
    LET b == tx[t.bucketKey]
        key == idToKey(id)
    IN  IF key \in DOMAIN b.kv
        THEN [err |-> "none", db |-> tx,
              out |-> <<Unmarshal(b.kv[key], ZeroRec)>>]
        ELSE [err |-> "none", db |-> tx, out |-> ptr]
getByIdTx(tx, t, id, ptr) ==
    IF getBucket(tx, t) # "none"
    THEN [err |-> getBucket(tx, t), db |-> tx, out |-> ptr]
    ELSE LET b == tx[t.bucketKey]
             key == idToKey(id)
         IN  IF key \in DOMAIN b.kv
             THEN [err |-> "none", db |-> tx,
                   out |-> <<Unmarshal(b.kv[key],
                                       IF ptr = <<>> THEN ZeroRec ELSE ptr[1])>>]
             ELSE [err |-> "none", db |-> tx, out |-> <<>>]

\* The function getAll passes to bolt.View; slice is the caller's slice.
getAllTxAppend(tx, t, slice) ==
    LET entries == ForEach(tx[t.bucketKey])
    IN  [err |-> "none", db |-> tx,
         out |-> slice \o [i \in 1..Len(entries) |->
                              Unmarshal(entries[i].value, ZeroRec)]]
getAllTxTakesSequence(tx, t, slice) ==
    LET entries == ForEach(tx[t.bucketKey])
    IN  [err |-> "none",
         db |-> [tx EXCEPT ![t.bucketKey] = [@ EXCEPT !.sequence = @ + 1]],
         out |-> [i \in 1..Len(entries) |->
                     Unmarshal(entries[i].value, ZeroRec)]]
getAllTx(tx, t, slice) ==
    IF getBucket(tx, t) # "none"
    THEN [err |-> getBucket(tx, t), db |-> tx, out |-> slice]
    ELSE LET entries == ForEach(tx[t.bucketKey])
         IN  [err |-> "none", db |-> tx,
              out |-> [i \in 1..Len(entries) |->
                          Unmarshal(entries[i].value, ZeroRec)]]

\* ---------------------------------------------------------------- state
VARIABLES
    db,        \* the store: bucket name -> [sequence, kv: key -> stored JSON]
    op,        \* the operation that ran last
    argShape,  \* the kinds and base type of the argument it was called with
    argId,     \* the id it was called with (the record's id for create/update)
    argRec,    \* the caller's record, pointer or slice as passed (<<>> is nil)
    err,       \* the error it returned ("none" for nil)
    out,       \* the caller's record, pointer or slice when it returned
    assigned,  \* history: ids given out by successful creates
    epoch,     \* history: ids given out since the last successful truncate
    lastWrite, \* history: the latest successful create/update, if no delete
               \* or truncate succeeded after it (<<>> otherwise)
    handle,    \* the table handle the last operation was called on (<<t>>)
    txOpened,  \* the transaction it opened: "none", "view" or "update"
    calls,     \* concurrent callers: the call each one has in progress
    SavedMatch,        \* arena.SavedMatch: [Status]
    SavedMatchResult,  \* arena.SavedMatchResult: each alliance's bonus
                       \* ranking points from its score summary
    scorePosted        \* the latest score-posted message (<<>>: none yet)

vars ==
    <<db, op, argShape, argId, argRec, err, out, assigned, epoch, lastWrite,
      handle, txOpened, calls, SavedMatch, SavedMatchResult, scorePosted>>

\* The arena's saved match and the message generated from it.
arenaVars == <<SavedMatch, SavedMatchResult, scorePosted>>

\* Concurrent callers of the table, and a caller with no call in progress.
Procs == {"p1", "p2"}
Idle ==
    [stage |-> "idle", op |-> "", id |-> 0, rec |-> <<>>, err |-> "none",
     out |-> <<>>, tx |-> EmptyStore]

\* Operations without a record argument.
NoArg == [kinds |-> <<>>, type |-> ""]

\* Statuses of a match (package game): not played yet, hidden, or played
\* with one of the three results.
MatchStatuses ==
    {"MatchScheduled", "MatchHidden", "RedWonMatch", "BlueWonMatch",
     "TieMatch"}

\* An arena that has saved no played match and generated no message.
NoSavedMatch ==
    /\ SavedMatch = [Status |-> "MatchScheduled"]
    /\ SavedMatchResult = [RedBonusRankingPoints |-> 0,
                           BlueBonusRankingPoints |-> 0]
    /\ scorePosted = <<>>

\* After newTable: the bucket exists and is empty.
Init ==
    /\ db = newTable(EmptyStore, RecType, "none").db
    /\ op = "newTable"
    /\ argShape = NoArg
    /\ argId = 0
    /\ argRec = <<>>
    /\ err = "none"
    /\ out = <<>>
    /\ assigned = {}
    /\ epoch = {}
    /\ lastWrite = <<>>
    /\ handle = <<table>>
    /\ txOpened = "update"
    /\ calls = [p \in Procs |-> Idle]
    /\ NoSavedMatch

Faults == {"none", "encode", "write", "commit"}
NoFaults == {"none"}

\* Ids callers pass: negative, zero, stored, deleted and never assigned.
Ids(limit) == (0 - 1)..(limit + 1)

\* A pointer or slice the caller passes to a fetch: nil/empty, or holding
\* an earlier record.  An argument of another shape or type carries no
\* record of the table's type: its record is left out (<<>>).
Priors == {<<>>, <<Rec(1, "z")>>}

sequence == db[table.bucketKey].sequence

Returned(o, shape, id, rec, e, result) ==
    /\ op' = o
    /\ argShape' = shape
    /\ argId' = id
    /\ argRec' = rec
    /\ err' = e
    /\ out' = result

\* The handle a sequential call ran on and the transaction it opened.
Called(t, kind) ==
    /\ handle' = <<t>>
    /\ txOpened' = kind
    /\ UNCHANGED <<calls, arenaVars>>

\* The histories follow the bucket of `table`.
Tracked(t) == t.bucketKey = table.bucketKey

\* create: the record's id must be zero.
createIdCheckNone(id) == "none"
createIdCheck(id) == IF id # 0 THEN "nonzero_id" ELSE "none"

\* update: the record's id must not be zero.
updateIdCheck(id) == IF id = 0 THEN "zero_id" ELSE "none"

\* table.getById(id, record) on the handle t
getByIdOn(t, limit) ==
    \E arg \in ArgShapes(<<"ptr", "ptr", "struct">>), id \in Ids(limit) :
        LET v == validateType(t, arg, <<"ptr", "ptr", "struct">>)
        IN  IF v # "none"
            THEN /\ Returned("getById", arg, id, <<>>, v, <<>>)
                 /\ Called(t, "none")
                 /\ UNCHANGED <<db, assigned, epoch, lastWrite>>
            ELSE \E ptr \in Priors :
                    LET r == getByIdTx(db, t, id, ptr)
                    IN  /\ Returned("getById", arg, id, ptr, r.err, r.out)
                        /\ Called(t, "view")
                        /\ db' = r.db
                        /\ UNCHANGED <<assigned, epoch, lastWrite>>

\* table.getAll(recordSlice) on the handle t
getAllOn(t) ==
    \E arg \in ArgShapes(<<"ptr", "slice", "struct">>) :
        LET v == validateType(t, arg, <<"ptr", "slice", "struct">>)
        IN  IF v # "none"
            THEN /\ Returned("getAll", arg, 0, <<>>, v, <<>>)
                 /\ Called(t, "none")
                 /\ UNCHANGED <<db, assigned, epoch, lastWrite>>
            ELSE \E slice \in Priors :
                    LET r == getAllTx(db, t, slice)
                    IN  /\ Returned("getAll", arg, 0, slice, r.err, r.out)
                        /\ Called(t, "view")
                        /\ db' = r.db
                        /\ UNCHANGED <<assigned, epoch, lastWrite>>

\* table.create(record) on the handle t
createOn(t, limit, names, faults) ==
    /\ db[t.bucketKey].sequence < limit
    /\ \E arg \in ArgShapes(<<"ptr", "struct">>) :
        LET v == validateType(t, arg, <<"ptr", "struct">>)
        IN  IF v # "none"
            THEN /\ Returned("create", arg, 0, <<>>, v, <<>>)
                 /\ Called(t, "none")
                 /\ UNCHANGED <<db, assigned, epoch, lastWrite>>
            ELSE \E id \in {0, 1, 2}, n \in names, f \in faults :
                LET rec == Rec(id, n)
                    body == createTx(db, t, rec, f)
                    r == Update(db, body, f)
                    ok == r.err = "none" /\ Tracked(t)
                IN  IF createIdCheck(id) # "none"
                    THEN /\ Returned("create", arg, id, <<rec>>,
                                     createIdCheck(id), <<rec>>)
                         /\ Called(t, "none")
                         /\ UNCHANGED <<db, assigned, epoch, lastWrite>>
                    ELSE /\ Returned("create", arg, id, <<rec>>, r.err,
                                     <<body.rec>>)
                         /\ Called(t, "update")
                         /\ db' = r.db
                         /\ assigned' =
                                IF ok THEN assigned \cup {body.rec.Id}
                                ELSE assigned
                         /\ epoch' =
                                IF ok THEN epoch \cup {body.rec.Id} ELSE epoch
                         /\ lastWrite' =
                                IF ok
                                THEN <<[op |-> "create", rec |-> body.rec]>>
                                ELSE lastWrite

\* table.update(record) on the handle t
updateOn(t, limit, names, faults) ==
    \E arg \in ArgShapes(<<"ptr", "struct">>) :
        LET v == validateType(t, arg, <<"ptr", "struct">>)
        IN  IF v # "none"
            THEN /\ Returned("update", arg, 0, <<>>, v, <<>>)
                 /\ Called(t, "none")
                 /\ UNCHANGED <<db, assigned, epoch, lastWrite>>
            ELSE \E id \in Ids(limit), n \in names, f \in faults :
                LET rec == Rec(id, n)
                    body == updateTx(db, t, rec, f)
                    r == Update(db, body, f)
                IN  IF updateIdCheck(id) # "none"
                    THEN /\ Returned("update", arg, id, <<rec>>,
                                     updateIdCheck(id), <<rec>>)
                         /\ Called(t, "none")
                         /\ UNCHANGED <<db, assigned, epoch, lastWrite>>
                    ELSE /\ Returned("update", arg, id, <<rec>>, r.err,
                                     <<body.rec>>)
                         /\ Called(t, "update")
                         /\ db' = r.db
                         /\ lastWrite' =
                                IF r.err = "none" /\ Tracked(t)
                                THEN <<[op |-> "update", rec |-> body.rec]>>
                                ELSE lastWrite
                         /\ UNCHANGED <<assigned, epoch>>

\* table.delete(id) on the handle t
deleteOn(t, limit, faults) ==
    \E id \in Ids(limit), f \in faults :
        LET r == Update(db, deleteTx(db, t, id, f), f)
        IN  /\ Returned("delete", NoArg, id, <<>>, r.err, <<>>)
            /\ Called(t, "update")
            /\ db' = r.db
            /\ lastWrite' =
                   IF r.err = "none" /\ Tracked(t) THEN <<>> ELSE lastWrite
            /\ UNCHANGED <<assigned, epoch>>

\* table.truncate() on the handle t
truncateOn(t, faults) ==
    \E f \in faults :
        LET r == Update(db, truncateTx(db, t, f), f)
            ok == r.err = "none" /\ Tracked(t)
        IN  /\ Returned("truncate", NoArg, 0, <<>>, r.err, <<>>)
            /\ Called(t, "update")
            /\ db' = r.db
            /\ epoch' = IF ok THEN {} ELSE epoch
            /\ lastWrite' = IF ok THEN <<>> ELSE lastWrite
            /\ UNCHANGED assigned

\* Database.newTable(recordType)
register(types, faults) ==
    \E type \in types, f \in faults :
        LET r == newTable(db, type, f)
        IN  /\ Returned("newTable", [kinds |-> <<type.kind>>, type |-> type.name],
                        0, <<>>, r.err, <<>>)
            /\ handle' = r.table
            /\ txOpened' = r.tx
            /\ db' = r.db
            /\ UNCHANGED <<assigned, epoch, lastWrite, calls, arenaVars>>

\* The operations on the registered table.
getById(limit) == getByIdOn(table, limit)
getAll == getAllOn(table)
create(limit, names, faults) == createOn(table, limit, names, faults)
update(limit, names, faults) == updateOn(table, limit, names, faults)
delete(limit, faults) == deleteOn(table, limit, faults)
truncate(faults) == truncateOn(table, faults)

\* ------------------------------------------------------- specifications
\* Every operation; the store and the codec never fail.
Create == create(MaxSeq, Names, NoFaults)
UpdateRec == update(MaxSeq, Names, NoFaults)
DeleteRec == delete(MaxSeq, NoFaults)
Truncate == truncate(NoFaults)
GetById == getById(MaxSeq)
GetAll == getAll

Next == Create \/ UpdateRec \/ DeleteRec \/ Truncate \/ GetById \/ GetAll

Spec == Init /\ [][Next]_vars

\* Every operation; encoding, a store write or the commit may fail.
CreateF == create(MaxFault, Names, Faults)
UpdateF == update(MaxFault, Names, Faults)
DeleteF == delete(MaxFault, Faults)
TruncateF == truncate(Faults)
GetByIdF == getById(MaxFault)

NextFault == CreateF \/ UpdateF \/ DeleteF \/ TruncateF \/ GetByIdF \/ GetAll

SpecFault == Init /\ [][NextFault]_vars

\* Create, update and delete only (no truncate).
NextCUD == Create \/ UpdateRec \/ DeleteRec \/ GetById \/ GetAll

SpecCUD == Init /\ [][NextCUD]_vars

\* Long runs of creates, so that keys of two digits appear.
CreateL == create(MaxLong, LongNames, NoFaults)
DeleteL == delete(MaxLong, NoFaults)

NextLong == CreateL \/ DeleteL \/ GetAll

SpecLong == Init /\ [][NextLong]_vars

\* Registration of record types at any time, and calls through the handle
\* newTable returned or through a handle without id locator.
Handles == {table, brokenTable}

Register == register(RecordTypes, NoFaults)
CreateH == \E t \in Handles : createOn(t, MaxReg, Names, NoFaults)
UpdateH == \E t \in Handles : updateOn(t, MaxReg, Names, NoFaults)
DeleteH == \E t \in Handles : deleteOn(t, MaxReg, NoFaults)
TruncateH == \E t \in Handles : truncateOn(t, NoFaults)
GetByIdH == \E t \in Handles : getByIdOn(t, MaxReg)
GetAllH == \E t \in Handles : getAllOn(t)

NextReg ==
    Register \/ CreateH \/ UpdateH \/ DeleteH \/ TruncateH \/ GetByIdH
        \/ GetAllH

SpecReg == Init /\ [][NextReg]_vars

\* Two tables registered for two record types in one store.
TwoTables == {table, otherTable}

InitTwo ==
    /\ db = newTable(newTable(EmptyStore, RecType, "none").db, OtherType,
                     "none").db
    /\ op = "newTable"
    /\ argShape = NoArg
    /\ argId = 0
    /\ argRec = <<>>
    /\ err = "none"
    /\ out = <<>>
    /\ assigned = {}
    /\ epoch = {}
    /\ lastWrite = <<>>
    /\ handle = <<otherTable>>
    /\ txOpened = "update"
    /\ calls = [p \in Procs |-> Idle]
    /\ NoSavedMatch

CreateT == \E t \in TwoTables : createOn(t, MaxTwo, LongNames, NoFaults)
UpdateT == \E t \in TwoTables : updateOn(t, MaxTwo, LongNames, NoFaults)
DeleteT == \E t \in TwoTables : deleteOn(t, MaxTwo, NoFaults)
TruncateT == \E t \in TwoTables : truncateOn(t, NoFaults)

NextTwo == CreateT \/ UpdateT \/ DeleteT \/ TruncateT

SpecTwo == InitTwo /\ [][NextTwo]_vars

\* ---------------------------------------------------- concurrent callers
\* A caller's call goes through the stages
\*   waiting: checks before the transaction passed, bolt.Update not begun
\*   intx:    write transaction begun on its own view of the store
\*   dropped: (truncate) bucket deleted in the transaction, not recreated
\*   ready:   the transaction's function has returned
\*   done:    committed or rolled back, the call has returned
InTx == {"intx", "dropped", "ready"}

\* bolt.View: a read transaction sees the last committed store.
ViewDirty(committed, cs) ==
    IF \E q \in Procs : cs[q].stage \in InTx
    THEN (cs[CHOOSE q \in Procs : cs[q].stage \in InTx]).tx
    ELSE committed
View(committed, cs) == committed

\* bolt.Update begins only when no other write transaction is open.
WriterFreeNoLock(cs) == TRUE
WriterFree(cs) == \A q \in Procs : cs[q].stage \notin InTx

CanCall(p) == calls[p].stage \in {"idle", "done"}

Pending(p, o, id, rec) ==
    /\ calls' = [calls EXCEPT ![p] =
                    [stage |-> "waiting", op |-> o, id |-> id, rec |-> rec,
                     err |-> "none", out |-> rec, tx |-> EmptyStore]]
    /\ UNCHANGED <<db, op, argShape, argId, argRec, err, out, assigned, epoch,
                   lastWrite, handle, txOpened, arenaVars>>

Finished(p, o, id, rec, e, result) ==
    /\ calls' = [calls EXCEPT ![p] =
                    [stage |-> "done", op |-> o, id |-> id, rec |-> rec,
                     err |-> e, out |-> result, tx |-> EmptyStore]]
    /\ UNCHANGED <<db, op, argShape, argId, argRec, err, out, assigned, epoch,
                   lastWrite, handle, txOpened, arenaVars>>

\* create up to the call of bolt.Update
cCreate(p, limit, names) ==
    /\ CanCall(p)
    /\ sequence < limit
    /\ \E n \in names :
        LET rec == Rec(0, n)
            v == validateType(table, [kinds |-> <<"ptr", "struct">>,
                                      type |-> "Rec"], <<"ptr", "struct">>)
        IN  IF v # "none" THEN Finished(p, "create", 0, <<rec>>, v, <<rec>>)
            ELSE IF createIdCheck(rec.Id) # "none"
            THEN Finished(p, "create", 0, <<rec>>, createIdCheck(rec.Id),
                          <<rec>>)
            ELSE Pending(p, "create", 0, <<rec>>)

\* update up to the call of bolt.Update
cUpdate(p, limit, names) ==
    /\ CanCall(p)
    /\ \E id \in 1..limit, n \in names :
        LET rec == Rec(id, n)
            v == validateType(table, [kinds |-> <<"ptr", "struct">>,
                                      type |-> "Rec"], <<"ptr", "struct">>)
        IN  IF v # "none" THEN Finished(p, "update", id, <<rec>>, v, <<rec>>)
            ELSE IF updateIdCheck(rec.Id) # "none"
            THEN Finished(p, "update", id, <<rec>>, updateIdCheck(rec.Id),
                          <<rec>>)
            ELSE Pending(p, "update", id, <<rec>>)

\* delete up to the call of bolt.Update
cDelete(p, limit) ==
    /\ CanCall(p)
    /\ \E id \in 1..limit : Pending(p, "delete", id, <<>>)

\* truncate up to the call of bolt.Update
cTruncate(p) ==
    /\ CanCall(p)
    /\ Pending(p, "truncate", 0, <<>>)

\* getById: validation and the read transaction
cGetById(p, limit) ==
    /\ CanCall(p)
    /\ \E id \in 1..limit :
        LET v == validateType(table, [kinds |-> <<"ptr", "ptr", "struct">>,
                                      type |-> "Rec"],
                              <<"ptr", "ptr", "struct">>)
            r == getByIdTx(View(db, calls), table, id, <<>>)
        IN  IF v # "none" THEN Finished(p, "getById", id, <<>>, v, <<>>)
            ELSE Finished(p, "getById", id, <<>>, r.err, r.out)

\* getAll: validation and the read transaction
cGetAll(p) ==
    /\ CanCall(p)
    /\ LET v == validateType(table, [kinds |-> <<"ptr", "slice", "struct">>,
                                     type |-> "Rec"],
                             <<"ptr", "slice", "struct">>)
           r == getAllTx(View(db, calls), table, <<>>)
       IN  IF v # "none" THEN Finished(p, "getAll", 0, <<>>, v, <<>>)
           ELSE Finished(p, "getAll", 0, <<>>, r.err, r.out)

\* bolt.Update begins the write transaction.
cBegin(p) ==
    /\ calls[p].stage = "waiting"
    /\ WriterFree(calls)
    /\ calls' = [calls EXCEPT ![p] = [@ EXCEPT !.stage = "intx", !.tx = db]]
    /\ UNCHANGED <<db, op, argShape, argId, argRec, err, out, assigned, epoch,
                   lastWrite, handle, txOpened, arenaVars>>

\* The function passed to bolt.Update runs on the transaction's view; the
\* function of truncate stops after DeleteBucket.
cBody(p) ==
    /\ calls[p].stage = "intx"
    /\ LET c == calls[p]
           body ==
              IF c.op = "create" THEN createTx(c.tx, table, c.rec[1], "none")
              ELSE IF c.op = "update"
              THEN updateTx(c.tx, table, c.rec[1], "none")
              ELSE IF c.op = "delete"
              THEN deleteTx(c.tx, table, c.id, "none")
              ELSE [err |-> getBucket(c.tx, table),
                    db |-> IF getBucket(c.tx, table) = "none"
                           THEN DeleteBucket(c.tx, table.bucketKey)
                           ELSE c.tx]
       IN  calls' = [calls EXCEPT ![p] =
                       [c EXCEPT
                          !.stage = IF c.op = "truncate" /\ body.err = "none"
                                    THEN "dropped" ELSE "ready",
                          !.err = body.err,
                          !.out = IF c.op \in {"create", "update"}
                                  THEN <<body.rec>> ELSE <<>>,
                          !.tx = body.db]]
    /\ UNCHANGED <<db, op, argShape, argId, argRec, err, out, assigned, epoch,
                   lastWrite, handle, txOpened, arenaVars>>

\* The function of truncate creates the bucket again.
cRecreate(p) ==
    /\ calls[p].stage = "dropped"
    /\ calls' = [calls EXCEPT ![p] =
                    [@ EXCEPT !.stage = "ready",
                              !.tx = CreateBucket(@, table.bucketKey)]]
    /\ UNCHANGED <<db, op, argShape, argId, argRec, err, out, assigned, epoch,
                   lastWrite, handle, txOpened, arenaVars>>

\* bolt.Update commits or rolls back, and the call returns.
cEnd(p) ==
    /\ calls[p].stage = "ready"
    /\ LET c == calls[p]
           r == Update(db, [err |-> c.err, db |-> c.tx], "none")
           ok == r.err = "none"
       IN  /\ db' = r.db
           /\ calls' = [calls EXCEPT ![p] =
                           [c EXCEPT !.stage = "done", !.err = r.err,
                                     !.tx = EmptyStore]]
           /\ assigned' =
                  IF ok /\ c.op = "create" THEN assigned \cup {c.out[1].Id}
                  ELSE assigned
           /\ epoch' =
                  IF ok /\ c.op = "create" THEN epoch \cup {c.out[1].Id}
                  ELSE IF ok /\ c.op = "truncate" THEN {}
                  ELSE epoch
    /\ UNCHANGED <<op, argShape, argId, argRec, err, out, lastWrite, handle,
                   txOpened, arenaVars>>

\* Concurrent creates only.
CCreate == \E p \in Procs : cCreate(p, MaxConc, Names)
CBegin == \E p \in Procs : cBegin(p)
CBody == \E p \in Procs : cBody(p)
CEnd == \E p \in Procs : cEnd(p)

NextCreate == CCreate \/ CBegin \/ CBody \/ CEnd

SpecCreate == Init /\ [][NextCreate]_vars

\* Concurrent calls of every operation.
CCreateL == \E p \in Procs : cCreate(p, MaxConc, LongNames)
CUpdate == \E p \in Procs : cUpdate(p, MaxConc, LongNames)
CDelete == \E p \in Procs : cDelete(p, MaxConc)
CTruncate == \E p \in Procs : cTruncate(p)
CGetById == \E p \in Procs : cGetById(p, MaxConc)
CGetAll == \E p \in Procs : cGetAll(p)
CRecreate == \E p \in Procs : cRecreate(p)

NextConc ==
    CCreateL \/ CUpdate \/ CDelete \/ CTruncate \/ CGetById \/ CGetAll
        \/ CBegin \/ CBody \/ CRecreate \/ CEnd

SpecConc == Init /\ [][NextConc]_vars

\* ------------------------------------------------- score-posted message
\* The ranking points GenerateScorePostedMessage puts in the message.
GenerateScorePostedMessageTieNothing(match, result) ==
    [RedRankingPoints |->
        result.RedBonusRankingPoints
            + (IF match.Status = "RedWonMatch" THEN 2 ELSE 0),
     BlueRankingPoints |->
        result.BlueBonusRankingPoints
            + (IF match.Status = "BlueWonMatch" THEN 2 ELSE 0)]
GenerateScorePostedMessage(match, result) ==
    LET redRankingPoints == result.RedBonusRankingPoints
        blueRankingPoints == result.BlueBonusRankingPoints
    IN  IF match.Status = "RedWonMatch"
        THEN [RedRankingPoints |-> redRankingPoints + 2,
              BlueRankingPoints |-> blueRankingPoints]
        ELSE IF match.Status = "BlueWonMatch"
        THEN [RedRankingPoints |-> redRankingPoints,
              BlueRankingPoints |-> blueRankingPoints + 2]
        ELSE IF match.Status = "TieMatch"
        THEN [RedRankingPoints |-> redRankingPoints + 1,
              BlueRankingPoints |-> blueRankingPoints + 1]
        ELSE [RedRankingPoints |-> redRankingPoints,
              BlueRankingPoints |-> blueRankingPoints]

\* Any saved match and score summaries; the table as after newTable.
InitScore ==
    /\ db = newTable(EmptyStore, RecType, "none").db
    /\ op = "newTable"
    /\ argShape = NoArg
    /\ argId = 0
    /\ argRec = <<>>
    /\ err = "none"
    /\ out = <<>>
    /\ assigned = {}
    /\ epoch = {}
    /\ lastWrite = <<>>
    /\ handle = <<table>>
    /\ txOpened = "update"
    /\ calls = [p \in Procs |-> Idle]
    /\ SavedMatch \in [Status : MatchStatuses]
    /\ SavedMatchResult \in [RedBonusRankingPoints : 0..MaxBonus,
                              BlueBonusRankingPoints : 0..MaxBonus]
    /\ scorePosted = <<>>

\* arena.GenerateScorePostedMessage()
PostScore ==
    /\ scorePosted' = <<GenerateScorePostedMessage(SavedMatch,
                                                   SavedMatchResult)>>
    /\ UNCHANGED <<db, op, argShape, argId, argRec, err, out, assigned, epoch,
                   lastWrite, handle, txOpened, calls, SavedMatch,
                   SavedMatchResult>>

NextScore == PostScore

SpecScore == InitScore /\ [][NextScore]_vars

\* ---------------------------------------------------------------- claims
kv == db[table.bucketKey].kv

Stored(id) == idToKey(id) \in DOMAIN kv

RecordArg == [kinds |-> <<"ptr", "struct">>, type |-> "Rec"]
PointerArg == [kinds |-> <<"ptr", "ptr", "struct">>, type |-> "Rec"]
SliceArg == [kinds |-> <<"ptr", "slice", "struct">>, type |-> "Rec"]

\* C1: without truncate, every create of a record with id 0 succeeds and
\* assigns a positive id greater than every id a create assigned before on
\* the table; the first create assigns 1, and an id freed by delete is not
\* assigned again.  Checked under SpecCUD.
C1_CreateAssignsFreshId ==
    [][(op' = "create" /\ argShape' = RecordArg /\ argId' = 0) =>
          /\ err' = "none"
          /\ out'[1].Id > 0
          /\ \A i \in assigned : out'[1].Id > i
          /\ (assigned = {} => out'[1].Id = 1)
          /\ idToKey(out'[1].Id) \in DOMAIN kv']_vars

\* create a, create b, delete(1), create c: c has id 3.
C1_Witness ==
    /\ op = "create" /\ err = "none" /\ argId = 0
    /\ out = <<Rec(3, "a")>>
    /\ DOMAIN kv = {idToKey(2), idToKey(3)}

\* C2 as stated: an id a successful create assigned is never assigned by a
\* later create on the table, even when deletes or truncates lie between.
C2_NeverReusedAcrossTruncate ==
    [][(op' = "create" /\ err' = "none") => out'[1].Id \notin assigned]_vars

\* C2 as amended: an id a successful create assigned is never assigned by a
\* later create on the table unless a truncate succeeded between the two
\* creates; deletes between them do not free it.
C2_NeverReusedWithinEpoch ==
    [][(op' = "create" /\ err' = "none") => out'[1].Id \notin epoch]_vars

\* A create that succeeded after a delete, on a table truncated earlier.
C2_Witness ==
    /\ op = "create" /\ err = "none"
    /\ assigned # epoch
    /\ Cardinality(DOMAIN kv) < Cardinality(epoch)

\* C3: after a successful truncate the table is empty (getAll yields the
\* empty slice, getById yields nil for every id) and the next successful
\* create assigns 1, however many creates preceded the truncate.
C3_TruncateRestarts ==
    [][/\ (op' = "truncate" /\ err' = "none") => DOMAIN kv' = {}
       /\ (op = "truncate" /\ err = "none" /\ op' = "getAll"
              /\ argShape' = SliceArg) => (err' = "none" /\ out' = <<>>)
       /\ (op = "truncate" /\ err = "none" /\ op' = "getById"
              /\ argShape' = PointerArg) => (err' = "none" /\ out' = <<>>)
       /\ (op' = "create" /\ err' = "none" /\ epoch = {}) =>
              out'[1].Id = 1]_vars

\* Id 1 handed out again by the first create after a truncate that followed
\* at least two creates.
C3_Witness ==
    /\ op = "create" /\ err = "none"
    /\ out[1].Id = 1
    /\ Cardinality(assigned) >= 2
    /\ epoch = {1}

\* C4: when create, update, delete or truncate returns an error raised
\* inside its write transaction, the stored entries and the sequence are
\* what they were before the call.  Checked under SpecFault.
C4_FailedTransactionRollsBack ==
    [][(/\ op' \in {"create", "update", "delete", "truncate"}
        /\ err' \in {"unknown_table", "exists", "not_found", "encode", "store"})
          => db' = db]_vars

\* A create that failed after it had obtained the next sequence value.
C4_Witness ==
    /\ op = "create" /\ err \in {"encode", "store"}
    /\ out[1].Id = sequence + 1
    /\ sequence >= 1

\* C5: getById with the id of the latest successful create or update (no
\* delete or truncate since) yields a pointer to a record equal to the one
\* written, the assigned id included.
C5_FetchReturnsWritten ==
    (/\ op = "getById" /\ argShape = PointerArg
     /\ lastWrite # <<>> /\ argId = lastWrite[1].rec.Id)
        => (err = "none" /\ out = <<lastWrite[1].rec>>)

\* A fetch of a record that was created and then updated to another name.
C5_Witness ==
    /\ op = "getById" /\ err = "none"
    /\ lastWrite = <<[op |-> "update", rec |-> Rec(2, "b")]>>
    /\ argId = 2 /\ argRec # <<>>
    /\ out = <<Rec(2, "b")>>

\* C6: getById on an id without a stored entry (never assigned, deleted,
\* truncated away, zero or negative) sets the pointer to nil and returns
\* no error.
C6_FetchAbsentIsNil ==
    (op = "getById" /\ argShape = PointerArg /\ ~Stored(argId))
        => (err = "none" /\ out = <<>>)

\* A fetch of a deleted id through a pointer that was not nil.
C6_Witness ==
    /\ op = "getById" /\ argShape = PointerArg
    /\ argId \in epoch /\ ~Stored(argId)
    /\ argRec # <<>>
    /\ out = <<>>

\* C7: update of a record with id 0 or with an id that has no stored entry
\* returns an error and changes nothing; a successful update overwrites
\* the entry at the record's id only and keeps the set of keys.
C7_UpdateNeverUpserts ==
    [][(op' = "update" /\ argShape' = RecordArg) =>
          IF argId' = 0 \/ ~Stored(argId')
          THEN err' \in {"zero_id", "not_found"} /\ db' = db
          ELSE /\ err' = "none"
               /\ DOMAIN kv' = DOMAIN kv
               /\ \A k \in DOMAIN kv : k # idToKey(argId') => kv'[k] = kv[k]
               /\ Unmarshal(kv'[idToKey(argId')], ZeroRec) = argRec'[1]
               /\ sequence' = sequence]_vars

\* An update of an id that was assigned and then deleted.
C7_Witness ==
    /\ op = "update" /\ err = "not_found"
    /\ argId \in epoch /\ ~Stored(argId)
    /\ DOMAIN kv # {}

\* C8: delete of an id without a stored entry returns an error and changes
\* nothing; delete of a stored id removes that entry only, keeps the
\* sequence, and a getById of the id right after it yields nil.
C8_DeleteRemovesExactlyOne ==
    [][/\ op' = "delete" =>
              IF ~Stored(argId')
              THEN err' = "not_found" /\ db' = db
              ELSE /\ err' = "none"
                   /\ DOMAIN kv' = DOMAIN kv \ {idToKey(argId')}
                   /\ \A k \in DOMAIN kv' : kv'[k] = kv[k]
                   /\ sequence' = sequence
       /\ (op = "delete" /\ err = "none" /\ op' = "getById"
              /\ argShape' = PointerArg /\ argId' = argId)
              => (err' = "none" /\ out' = <<>>)]_vars

\* A delete that succeeded and left other entries in the table.
C8_Witness ==
    /\ op = "delete" /\ err = "none"
    /\ ~Stored(argId)
    /\ Cardinality(DOMAIN kv) >= 2

\* Byte-wise lexicographic order of two decimal key strings.
LexBefore(a, b) ==
    \/ Len(a) < Len(b) /\ \A j \in 1..Len(a) : a[j] = b[j]
    \/ \E i \in 1..Len(a) :
          /\ i <= Len(b)
          /\ a[i] < b[i]
          /\ \A j \in 1..(i - 1) : a[j] = b[j]

TenIds == <<1, 10, 2, 3, 4, 5, 6, 7, 8, 9>>

\* C9: getAll yields exactly the stored records, whatever the slice held
\* before, in ascending byte-lexicographic order of their decimal keys;
\* with the ids 1..10 stored the order is 1,10,2,3,4,5,6,7,8,9.
\* Checked under SpecLong.
C9_GetAllLexicographic ==
    (op = "getAll" /\ argShape = SliceArg) =>
        /\ err = "none"
        /\ Len(out) = Cardinality(DOMAIN kv)
        /\ \A i \in 1..Len(out) :
              /\ Stored(out[i].Id)
              /\ kv[idToKey(out[i].Id)] = Marshal(out[i])
        /\ \A i, j \in 1..Len(out) :
              i < j => LexBefore(idToKey(out[i].Id), idToKey(out[j].Id))
        /\ (DOMAIN kv = {idToKey(i) : i \in 1..10}
              => [i \in 1..Len(out) |-> out[i].Id] = TenIds)

\* getAll into a slice that was not empty, after ten creates.
C9_Witness ==
    /\ op = "getAll" /\ err = "none"
    /\ argRec # <<>>
    /\ [i \in 1..Len(out) |-> out[i].Id] = TenIds

\* C10 as stated: getAll yields the records ordered by id, the numerically
\* smaller id first.
C10_GetAllNumericOrder ==
    (op = "getAll" /\ err = "none") =>
        \A i, j \in 1..Len(out) : i < j => out[i].Id < out[j].Id

\* C11: create with a record whose id is not 0 returns an error without
\* opening a write transaction; the entries, the sequence and the caller's
\* record stay as they were.
C11_CreateNonZeroRejected ==
    [][(op' = "create" /\ argShape' = RecordArg /\ argId' # 0) =>
          /\ err' = "nonzero_id"
          /\ txOpened' = "none"
          /\ db' = db
          /\ out' = argRec']_vars

\* A rejected create of a record with id 2 on a table that holds entries.
C11_Witness ==
    /\ op = "create" /\ err = "nonzero_id"
    /\ argId = 2 /\ out = argRec
    /\ DOMAIN kv # {}

\* Record types newTable must refuse: not a struct, no field tagged id, or
\* the first field tagged id is not an int64.
RefusedTypes == {"", "NoId", "StringId", "IntId"}

\* C13: newTable of a type that is not a struct, has no field tagged id, or
\* whose first id-tagged field is not an int64 returns an error and no
\* handle, and the set of buckets in the store stays as it was.
\* Checked under SpecReg.
C13_BadTypeNotRegistered ==
    [][(op' = "newTable" /\ argShape'.type \in RefusedTypes) =>
          /\ err' \in {"not_struct", "no_id_field", "id_not_int64"}
          /\ handle' = <<>>
          /\ DOMAIN db' = DOMAIN db
          /\ db' = db]_vars

\* A refused registration of the type whose first id field is a string.
C13_Witness ==
    /\ op = "newTable" /\ err = "id_not_int64"
    /\ argShape.type = "StringId"
    /\ "StringId" \notin DOMAIN db

\* C14: newTable of a type whose bucket exists succeeds and leaves the
\* bucket's entries and sequence as they were; a create right after it
\* continues from the sequence reached before.  Checked under SpecReg.
C14_RegistrationIdempotent ==
    [][/\ (op' = "newTable" /\ argShape'.type \in {"Rec", "Other"}
              /\ argShape'.type \in DOMAIN db)
              => (err' = "none" /\ db' = db)
       /\ (op = "newTable" /\ err = "none" /\ op' = "create"
              /\ err' = "none")
              => (/\ \A i \in epoch : out'[1].Id > i
                  /\ out'[1].Id = Cardinality(epoch) + 1)]_vars

\* A second registration of the record type on a table that holds entries
\* and has deleted one.
C14_Witness ==
    /\ op = "newTable" /\ err = "none"
    /\ argShape.type = "Rec"
    /\ handle = <<table>>
    /\ sequence = 2
    /\ Cardinality(DOMAIN kv) = 1

ExpectedArg(o) ==
    IF o = "getById" THEN PointerArg
    ELSE IF o = "getAll" THEN SliceArg
    ELSE RecordArg

IsPositiveDecimal(k) ==
    /\ Len(k) >= 1
    /\ \A i \in 1..Len(k) : k[i] \in 48..57
    /\ k[1] # 48

\* C16: in every reachable state each stored key is the decimal text of a
\* positive id, no two entries carry the same id, and the record stored
\* under a key carries that id (so the id of an entry never differs from
\* the one its key was created with).
C16_StoredIdsWellFormed ==
    /\ \A k \in DOMAIN kv :
          /\ IsPositiveDecimal(k)
          /\ Unmarshal(kv[k], ZeroRec).Id > 0
          /\ idToKey(Unmarshal(kv[k], ZeroRec).Id) = k
    /\ \A k1, k2 \in DOMAIN kv :
          k1 # k2 => Unmarshal(kv[k1], ZeroRec).Id # Unmarshal(kv[k2], ZeroRec).Id

\* An update that succeeded on a table that was truncated earlier and holds
\* two entries.
C16_Witness ==
    /\ op = "update" /\ err = "none"
    /\ argRec[1].Name # "a"
    /\ assigned # epoch
    /\ Cardinality(DOMAIN kv) = 2

\* C17: every stored id is at most the bucket's sequence, so the value
\* create obtains from the sequence is never a stored key and create never
\* returns the "already exists" error.
C17_ConflictNeverHappens ==
    /\ \A k \in DOMAIN kv : Unmarshal(kv[k], ZeroRec).Id <= sequence
    /\ idToKey(sequence + 1) \notin DOMAIN kv
    /\ err # "exists"

\* A create that succeeded after deletes and a truncate.
C17_Witness ==
    /\ op = "create" /\ err = "none"
    /\ assigned # epoch
    /\ out[1].Id = 2
    /\ DOMAIN kv = {idToKey(2)}

\* C19: getById and getAll, failing or not, leave the entries and the
\* sequence as they were and open at most a read transaction; the id the
\* next create assigns is the one it would have assigned before them.
C19_FetchesReadOnly ==
    [][/\ (op' \in {"getById", "getAll"})
              => (db' = db /\ txOpened' \in {"none", "view"})
       /\ (op \in {"getById", "getAll"} /\ op' = "create" /\ err' = "none")
              => out'[1].Id = Cardinality(epoch) + 1]_vars

\* A getAll that returned two records after three creates.
C19_Witness ==
    /\ op = "getAll" /\ err = "none"
    /\ txOpened = "view"
    /\ Len(out) = 2
    /\ sequence = 3

C12_ConcurrentCreatesDistinct ==
    [][\A p \in Procs :
          (/\ calls[p].stage = "ready" /\ calls'[p].stage = "done"
           /\ calls'[p].op = "create" /\ calls'[p].err = "none")
             => LET r == calls'[p].out[1]
                IN  /\ r.Id \notin assigned
                    /\ idToKey(r.Id) \notin DOMAIN kv
                    /\ r.Name = calls[p].rec[1].Name
                    /\ kv'[idToKey(r.Id)] = Marshal(r)
                    /\ \A k \in DOMAIN kv : k \in DOMAIN kv' /\ kv'[k] = kv[k]
                    /\ \A i \in assigned' : idToKey(i) \in DOMAIN kv']_vars

\* Two creates that overlapped: the caller that called second committed
\* first, and both records are stored under different ids.
C12_Witness ==
    /\ calls["p1"].stage = "done" /\ calls["p1"].op = "create"
    /\ calls["p2"].stage = "done" /\ calls["p2"].op = "create"
    /\ calls["p1"].err = "none" /\ calls["p2"].err = "none"
    /\ calls["p1"].out = <<Rec(2, "a")>>
    /\ calls["p2"].out = <<Rec(1, "b")>>
    /\ DOMAIN kv = {idToKey(1), idToKey(2)}

\* C18: the bucket exists in every committed state; whatever truncate is
\* doing, no call returns the "unknown table" error, and a getAll returns
\* exactly the committed records: all of those before a truncate commits,
\* none after.  Checked under SpecConc.
C18_NamespaceNeverMissing ==
    [][/\ table.bucketKey \in DOMAIN db'
       /\ \A p \in Procs :
             /\ calls'[p].err # "unknown_table"
             /\ (calls'[p] # calls[p] /\ calls'[p].op = "getAll"
                   /\ calls'[p].stage = "done")
                  => /\ calls'[p].err = "none"
                     /\ Len(calls'[p].out) = Cardinality(DOMAIN kv)
                     /\ \A i \in 1..Len(calls'[p].out) :
                           /\ Stored(calls'[p].out[i].Id)
                           /\ kv[idToKey(calls'[p].out[i].Id)]
                                 = Marshal(calls'[p].out[i])]_vars

\* A getAll that returned the two stored records while another caller's
\* truncate had deleted the bucket in its transaction.
C18_Witness ==
    /\ calls["p1"].op = "getAll" /\ calls["p1"].stage = "done"
    /\ Len(calls["p1"].out) = 2
    /\ calls["p2"].op = "truncate" /\ calls["p2"].stage = "dropped"
    /\ table.bucketKey \notin DOMAIN calls["p2"].tx

\* C21: an update commits only onto an entry that is in the committed store
\* when its transaction runs: if a delete or a truncate that committed
\* earlier removed the entry, the update returns not-found and stores
\* nothing; otherwise it replaces that one entry.  Checked under SpecConc.
C21_UpdateCannotResurrect ==
    [][\A p \in Procs :
          (/\ calls[p].stage = "ready" /\ calls'[p].stage = "done"
           /\ calls'[p].op = "update")
             => LET key == idToKey(calls[p].id)
                IN  IF key \in DOMAIN kv
                    THEN /\ calls'[p].err = "none"
                         /\ DOMAIN kv' = DOMAIN kv
                         /\ kv'[key] = Marshal(calls[p].rec[1])
                    ELSE /\ calls'[p].err = "not_found"
                         /\ db' = db]_vars

\* An update of record 1 that returned not-found next to a delete of
\* record 1 that succeeded, with record 1 gone and record 2 still stored.
C21_Witness ==
    /\ calls["p1"].op = "update" /\ calls["p1"].stage = "done"
    /\ calls["p1"].id = 1 /\ calls["p1"].err = "not_found"
    /\ calls["p2"].op = "delete" /\ calls["p2"].stage = "done"
    /\ calls["p2"].id = 1 /\ calls["p2"].err = "none"
    /\ DOMAIN kv = {idToKey(2)}

\* C22 as stated: when create of a record with id 0 returns an error, the
\* id of the caller's record is still 0.
C22_FailedCreateLeavesIdZero ==
    (op = "create" /\ err # "none" /\ argShape = RecordArg /\ argId = 0)
        => out[1].Id = 0

\* The match-result award in a message: its ranking points less the bonus
\* ranking points of the alliance's score summary.
RedAward == scorePosted[1].RedRankingPoints
                - SavedMatchResult.RedBonusRankingPoints
BlueAward == scorePosted[1].BlueRankingPoints
                - SavedMatchResult.BlueBonusRankingPoints

\* C23: in a score-posted message the award is 2 to the winner and 0 to the
\* loser when red or blue won, 1 to each alliance on a tie and 0 to both for
\* any other status; the two awards total 2 for a decided match and 0
\* otherwise.  Checked under SpecScore.
C23_RankingPointsAward ==
    scorePosted # <<>> =>
        /\ SavedMatch.Status = "RedWonMatch"
              => RedAward = 2 /\ BlueAward = 0
        /\ SavedMatch.Status = "BlueWonMatch"
              => RedAward = 0 /\ BlueAward = 2
        /\ SavedMatch.Status = "TieMatch"
              => RedAward = 1 /\ BlueAward = 1
        /\ SavedMatch.Status
                \notin {"RedWonMatch", "BlueWonMatch", "TieMatch"}
              => RedAward = 0 /\ BlueAward = 0
        /\ RedAward + BlueAward =
              IF SavedMatch.Status
                    \in {"RedWonMatch", "BlueWonMatch", "TieMatch"}
              THEN 2 ELSE 0

\* The message of a tie in which red has two bonus ranking points and blue
\* has none.
C23_Witness ==
    /\ SavedMatch.Status = "TieMatch"
    /\ SavedMatchResult = [RedBonusRankingPoints |-> 2,
                           BlueBonusRankingPoints |-> 0]
    /\ scorePosted = <<[RedRankingPoints |-> 3, BlueRankingPoints |-> 1]>>

====
